---------------------------- MODULE Spec2Model ----------------------------
(***************************************************************************)
(* A model of diceware.py: the rejection sampler get_one_index and its two *)
(* callers, get_random_numbers (bytes of a random device or file) and      *)
(* get_cast_of_dice (lines of die faces typed by the user).                *)
(*                                                                         *)
(* Three specifications share the variables:                               *)
(*   SpecSampler  get_one_index called once with any N, M and a callback   *)
(*                that returns any value of [0, M-1];                      *)
(*   SpecBytes    get_random_numbers on a finite stream of bytes;          *)
(*   SpecDice     get_cast_of_dice, one action per line read.              *)
(***************************************************************************)
EXTENDS Integers, Sequences, FiniteSets

VARIABLES
    mode,       \* which caller runs: "direct", "bytes" or "dice"
    N,          \* wordnum, the size of the target range
    M,          \* the bound of one draw, as passed to get_one_index
    num,        \* the number of indices to select
    pc,         \* "call", "loop", "done" or "error"
    i,          \* the loop variable of the caller's for loop
    xs,         \* the list of indices selected so far
    aN,         \* get_one_index's local aN
    r,          \* get_one_index's local r (NoDraw while unbound)
    err,        \* the exception that ended the run ("" for none)
    calldraws,  \* the results of entropy() tested in this call
    quiet,      \* get_random_numbers' quiet flag
    nbytes,     \* get_random_numbers' nbytes
    stream,     \* the contents of the file `source`
    pos,        \* the position of the file object `randomness`
    hist,       \* one record per call of get_random_numbers' entropy()
    dots,       \* the dots written to stdout
    sides,      \* the number of sides of the die
    throws,     \* the throws per word
    line,       \* the last line read by _get_throw, as its tokens
    out,        \* what was printed since the last line was read
    word,       \* the ordinal shown by the last "Word k: " prompt
    nlines      \* the number of lines read by _get_throw

coreVars == <<mode, N, M, num, pc, i, xs, aN, r, err, calldraws>>
byteVars == <<quiet, nbytes, stream, pos, hist, dots>>
diceVars == <<sides, throws, line, out, word, nlines>>
vars == <<mode, N, M, num, pc, i, xs, aN, r, err, calldraws,
          quiet, nbytes, stream, pos, hist, dots,
          sides, throws, line, out, word, nlines>>

-----------------------------------------------------------------------------
(* Bounds of the model. *)

MaxN == 6
MaxM == 8
MaxDraws == 3
MaxNum == 2
MaxStream == 3
MaxSides == 3
MaxDiceN == 3
MaxThrows == 3
MaxLines == 3

(* Program constants. *)

ByteBase == 256
BitsPerByte == 8
DefaultSides == 6

(* The value of r before the first entropy() of a call has returned. *)
NoDraw == -1

-----------------------------------------------------------------------------
(* Arithmetic. *)

RECURSIVE Pow(_, _)
Pow(b, e) == IF e = 0 THEN 1 ELSE b * Pow(b, e - 1)

Min(a, b) == IF a <= b THEN a ELSE b

CeilDiv(a, b) == (a + b - 1) \div b

(* ceil(log_b(n)) for n >= 1, b >= 2: the least k with b^k >= n. *)
RECURSIVE CeilLog(_, _)
CeilLog(n, b) == IF n <= 1 THEN 0 ELSE 1 + CeilLog(CeilDiv(n, b), b)

-----------------------------------------------------------------------------
(* get_one_index *)

(* Threshold without the rejection region: every draw is accepted. *)
ThresholdNoReject(Nv, Mv) == Mv

(* aN = M - M % N *)
Threshold(Nv, Mv) == Mv - (Mv % Nv)

(* Rejects with the comparison made strict: aN itself is accepted. *)
RejectsAbove(rv, aNv) == rv > aNv

(* if r >= aN: continue *)
Rejects(rv, aNv) == rv >= aNv

(* Index without the reduction modulo N. *)
IndexNoMod(rv, Nv) == rv

(* return r % N *)
Index(rv, Nv) == rv % Nv

(* The entry of get_one_index(Nv, Mv, entropy): the assertion and aN. *)
GetOneIndexEnter(Nv, Mv) ==
    /\ M' = Mv
    /\ r' = NoDraw
    /\ calldraws' = 0
    /\ IF ~(Mv >= Nv)
       THEN /\ pc' = "error"
            /\ err' = "AssertionError"
            /\ aN' = aN
       ELSE IF Nv = 0
       THEN /\ pc' = "error"
            /\ err' = "ZeroDivisionError"
            /\ aN' = aN
       ELSE /\ pc' = "loop"
            /\ err' = err
            /\ aN' = Threshold(Nv, Mv)
    /\ UNCHANGED <<mode, N, num, i, xs>>

(* One turn of get_one_index's loop, entropy() having returned rv. *)
GetOneIndexStep(rv) ==
    /\ r' = rv
    /\ calldraws' = calldraws + 1
    /\ IF ~(0 <= rv /\ rv <= M - 1)
       THEN /\ pc' = "error"
            /\ err' = "AssertionError"
            /\ UNCHANGED <<i, xs>>
       ELSE IF Rejects(rv, aN)
       THEN /\ pc' = "loop"
            /\ UNCHANGED <<i, xs, err>>
       ELSE /\ xs' = Append(xs, Index(rv, N))
            /\ i' = i + 1
            /\ pc' = "call"
            /\ err' = err
    /\ UNCHANGED <<mode, N, M, num, aN>>

-----------------------------------------------------------------------------
(* get_one_index called once, with a callback that returns any value of    *)
(* [0, M-1].                                                               *)

InitSampler ==
    /\ mode = "direct"
    /\ N \in 0..MaxN
    /\ M \in 0..MaxM
    /\ num = 1
    /\ pc = "call"
    /\ i = 0
    /\ xs = <<>>
    /\ aN = 0
    /\ r = NoDraw
    /\ err = ""
    /\ calldraws = 0
    /\ quiet = TRUE
    /\ nbytes = 0
    /\ stream = <<>>
    /\ pos = 0
    /\ hist = <<>>
    /\ dots = 0
    /\ sides = DefaultSides
    /\ throws = 0
    /\ line = <<>>
    /\ out = <<>>
    /\ word = 0
    /\ nlines = 0

CallDirect ==
    /\ mode = "direct"
    /\ pc = "call"
    /\ i < num
    /\ GetOneIndexEnter(N, M)
    /\ UNCHANGED byteVars
    /\ UNCHANGED diceVars

DrawDirect ==
    /\ mode = "direct"
    /\ pc = "loop"
    /\ calldraws < MaxDraws
    /\ \E rv \in 0..(M - 1) : GetOneIndexStep(rv)
    /\ UNCHANGED byteVars
    /\ UNCHANGED diceVars

ReturnDirect ==
    /\ mode = "direct"
    /\ pc = "call"
    /\ i = num
    /\ pc' = "done"
    /\ UNCHANGED <<mode, N, M, num, i, xs, aN, r, err, calldraws>>
    /\ UNCHANGED byteVars
    /\ UNCHANGED diceVars

NextSampler == CallDirect \/ DrawDirect \/ ReturnDirect

SpecSampler == InitSampler /\ [][NextSampler]_vars

-----------------------------------------------------------------------------
(* get_random_numbers *)

(* The sizes of word list and the byte values the model draws from: the    *)
(* sizes cover nbytes = 0, 1 and 2, with and without a rejection region.   *)
ByteWordnums == {1, 2, 7, 255, 256, 257}
ByteVals == {0, 5, 255}

RECURSIVE SeqsUpTo(_, _)
SeqsUpTo(S, n) ==
    IF n = 0 THEN {<<>>}
    ELSE LET shorter == SeqsUpTo(S, n - 1)
         IN shorter \cup {Append(s, v) : s \in {t \in shorter : Len(t) = n - 1}, v \in S}

(* NBytes with the quotient rounded down. *)
NBytesFloor(Nv) == CeilLog(Nv, 2) \div BitsPerByte

(* nbytes = math.ceil(math.log2(wordnum) / 8).  ceil(x / 8) is              *)
(* ceil(ceil(x) / 8), and the floating-point result is the exact one for   *)
(* every wordnum below 2^56.                                               *)
NBytes(Nv) == CeilDiv(CeilLog(Nv, 2), BitsPerByte)

(* randomness.read(n) at position p: at most n bytes, fewer at end of file. *)
Read(s, p, n) == SubSeq(s, p + 1, Min(p + n, Len(s)))

(* raw = b''; for j in range(nbytes): raw += randomness.read(1) *)
RECURSIVE ReadByteWise(_, _, _)
ReadByteWise(s, p, n) ==
    IF n = 0 THEN <<>>
    ELSE LET b == Read(s, p, 1)
         IN b \o ReadByteWise(s, p + Len(b), n - 1)

(* int.from_bytes(raw, byteorder='little', signed=False); b'' gives 0. *)
RECURSIVE FromBytesLittle(_)
FromBytesLittle(raw) ==
    IF raw = <<>> THEN 0
    ELSE Head(raw) + ByteBase * FromBytesLittle(Tail(raw))

(* The state after the file is opened.  main leaves on an empty word list, *)
(* so wordnum >= 1.                                                        *)
InitBytes ==
    /\ mode = "bytes"
    /\ N \in ByteWordnums
    /\ M = 0
    /\ num \in 0..MaxNum
    /\ pc = "call"
    /\ i = 0
    /\ xs = <<>>
    /\ aN = 0
    /\ r = NoDraw
    /\ err = ""
    /\ calldraws = 0
    /\ quiet \in BOOLEAN
    /\ nbytes = NBytes(N)
    /\ stream \in SeqsUpTo(ByteVals, MaxStream)
    /\ pos = 0
    /\ hist = <<>>
    /\ dots = 0
    /\ sides = DefaultSides
    /\ throws = 0
    /\ line = <<>>
    /\ out = <<>>
    /\ word = 0
    /\ nlines = 0

(* x = get_one_index(wordnum, 256**nbytes, entropy) *)
CallBytes ==
    /\ mode = "bytes"
    /\ pc = "call"
    /\ i < num
    /\ GetOneIndexEnter(N, Pow(ByteBase, nbytes))
    /\ UNCHANGED byteVars
    /\ UNCHANGED diceVars

(* One call of entropy() and the turn of get_one_index's loop that uses it. *)
DrawBytes ==
    /\ mode = "bytes"
    /\ pc = "loop"
    /\ LET raw == IF quiet THEN Read(stream, pos, nbytes)
                  ELSE ReadByteWise(stream, pos, nbytes)
           rv == FromBytesLittle(raw)
       IN /\ pos' = pos + Len(raw)
          /\ hist' = Append(hist, [start |-> pos, got |-> Len(raw), r |-> rv])
          /\ dots' = IF quiet THEN dots ELSE dots + nbytes
          /\ GetOneIndexStep(rv)
    /\ UNCHANGED <<quiet, nbytes, stream>>
    /\ UNCHANGED diceVars

(* The end of the for loop: return xs. *)
ReturnBytes ==
    /\ mode = "bytes"
    /\ pc = "call"
    /\ i = num
    /\ pc' = "done"
    /\ UNCHANGED <<mode, N, M, num, i, xs, aN, r, err, calldraws>>
    /\ UNCHANGED byteVars
    /\ UNCHANGED diceVars

NextBytes == CallBytes \/ DrawBytes \/ ReturnBytes

SpecBytes == InitBytes /\ [][NextBytes]_vars

-----------------------------------------------------------------------------
(* get_cast_of_dice and _get_throw *)

(* A token of a line: an integer literal with its value, or text that      *)
(* int() refuses.                                                          *)
IntToken(v) == [int |-> TRUE, v |-> v]
BadToken == [int |-> FALSE, v |-> 0]

(* The lines the model types: up to throws + 1 tokens, each 0..sides+1 or  *)
(* no integer.                                                             *)
Tokens(s) == {IntToken(v) : v \in 0..(s + 1)} \cup {BadToken}
Lines(s, t) == SeqsUpTo(Tokens(s), t + 1)

Msg(text, args) == [text |-> text, args |-> args]

(* throws = math.ceil(math.log(wordnum)/math.log(sides)).  The             *)
(* floating-point quotient gives the exact ceiling for every wordnum and   *)
(* sides of the model (it is one more at wordnum = 125, sides = 5 and at   *)
(* wordnum = 216, sides = 6).                                              *)
Throws(Nv, s) == CeilLog(Nv, s)

(* rs = list(map(int, throw.split())) raises ValueError *)
ParseFails(l) == \E k \in DOMAIN l : ~l[k].int

(* FaceOutOfRange with the lower bound off by one: face 0 passes. *)
FaceOutOfRangeFromZero(v, s) == v < 0 \/ v > s

(* r < 1 or r > sides *)
FaceOutOfRange(v, s) == v < 1 \/ v > s

(* outofrange.index(True) + 1 *)
FirstOutOfRange(l, s) ==
    CHOOSE k \in DOMAIN l :
        /\ FaceOutOfRange(l[k].v, s)
        /\ \A j \in 1..(k - 1) : ~FaceOutOfRange(l[j].v, s)

(* Report with no message for a line of the wrong length. *)
ReportSilentCount(l, s, t) ==
    IF ParseFails(l)
    THEN <<Msg("Invalid integer input:", <<>>), Msg("ValueError", <<>>)>>
    ELSE IF Len(l) # t
    THEN <<>>
    ELSE IF \E k \in DOMAIN l : FaceOutOfRange(l[k].v, s)
    THEN <<Msg("Number {} out of range (1 to {})", <<FirstOutOfRange(l, s), s>>)>>
    ELSE <<>>

(* What one turn of _get_throw's loop prints for the line l; nothing when  *)
(* the loop is left by `break`.                                            *)
Report(l, s, t) ==
    IF ParseFails(l)
    THEN <<Msg("Invalid integer input:", <<>>), Msg("ValueError", <<>>)>>
    ELSE IF Len(l) # t
    THEN <<Msg("You have to enter exactly {} numbers.", <<t>>)>>
    ELSE IF \E k \in DOMAIN l : FaceOutOfRange(l[k].v, s)
    THEN <<Msg("Number {} out of range (1 to {})", <<FirstOutOfRange(l, s), s>>)>>
    ELSE <<>>

(* Whether the turn ends in `continue` (the line is asked for again). *)
Continues(l, s, t) ==
    \/ ParseFails(l)
    \/ Len(l) # t
    \/ \E k \in DOMAIN l : FaceOutOfRange(l[k].v, s)

(* Digit with the face taken as it is read, 1 not subtracted. *)
DigitOneBased(v, s, k) == Pow(s, k) * v

(* sides**i * (r-1), i counted from 0 *)
Digit(v, s, k) == Pow(s, k) * (v - 1)

(* res = 0; for i, r in enumerate(rs): res += sides**i * (r-1) *)
RECURSIVE SumThrow(_, _, _)
SumThrow(rs, s, k) ==
    IF k = 0 THEN 0
    ELSE SumThrow(rs, s, k - 1) + Digit(rs[k], s, k - 1)

ThrowValue(l, s) == SumThrow([k \in DOMAIN l |-> l[k].v], s, Len(l))

(* The state after the header is printed.  main leaves on an empty word    *)
(* list, so wordnum >= 1; the number of sides typed is 2 or more (with 1   *)
(* or less, line 107 raises before any word is asked for).                 *)
InitDice ==
    /\ mode = "dice"
    /\ N \in 1..MaxDiceN
    /\ M = 0
    /\ num \in 0..MaxNum
    /\ pc = "call"
    /\ i = 0
    /\ xs = <<>>
    /\ aN = 0
    /\ r = NoDraw
    /\ err = ""
    /\ calldraws = 0
    /\ quiet = TRUE
    /\ nbytes = 0
    /\ stream = <<>>
    /\ pos = 0
    /\ hist = <<>>
    /\ dots = 0
    /\ sides \in 2..MaxSides
    /\ throws = Throws(N, sides)
    /\ line = <<>>
    /\ out = <<Msg("You have to throw your die {} times per word.", <<throws>>),
               Msg("Enter the results seperated by spaces.", <<>>)>>
    /\ word = 0
    /\ nlines = 0

(* x = get_one_index(wordnum, sides**throws, entropy) *)
CallDice ==
    /\ mode = "dice"
    /\ pc = "call"
    /\ i < num
    /\ GetOneIndexEnter(N, Pow(sides, throws))
    /\ UNCHANGED byteVars
    /\ UNCHANGED diceVars

(* One turn of _get_throw's loop: the prompt, the line read and its        *)
(* validation; for a line that passes, the conversion and the turn of      *)
(* get_one_index's loop that uses it.                                      *)
DiceLine ==
    /\ mode = "dice"
    /\ pc = "loop"
    /\ nlines < MaxLines
    /\ \E l \in Lines(sides, throws) :
          /\ word' = i + 1
          /\ line' = l
          /\ nlines' = nlines + 1
          /\ out' = Report(l, sides, throws)
          /\ IF Continues(l, sides, throws)
             THEN UNCHANGED coreVars
             ELSE GetOneIndexStep(ThrowValue(l, sides))
    /\ UNCHANGED <<sides, throws>>
    /\ UNCHANGED byteVars

(* The end of the for loop: print(xs); return xs. *)
ReturnDice ==
    /\ mode = "dice"
    /\ pc = "call"
    /\ i = num
    /\ pc' = "done"
    /\ out' = Append(out, Msg("xs", xs))
    /\ UNCHANGED <<mode, N, M, num, i, xs, aN, r, err, calldraws>>
    /\ UNCHANGED <<sides, throws, line, word, nlines>>
    /\ UNCHANGED byteVars

NextDice == CallDice \/ DiceLine \/ ReturnDice

SpecDice == InitDice /\ [][NextDice]_vars

-----------------------------------------------------------------------------
(* Properties of get_one_index, under SpecSampler. *)

(* A call of get_one_index has passed its entry: M and aN are set. *)
Entered == pc = "loop" \/ (pc \in {"call", "done"} /\ i >= 1)

(* A call of get_one_index has returned. *)
Returned == pc \in {"call", "done"} /\ i >= 1

(* C1: for 1 <= N <= M and draws in [0, M-1], every index get_one_index    *)
(* returns lies in [0, N-1].                                               *)
C1_IndexInRange ==
    (1 <= N /\ N <= M) =>
        \A k \in DOMAIN xs : 0 <= xs[k] /\ xs[k] <= N - 1

(* The boundary M = N + 1: the index N - 1 returned after a rejected draw. *)
C1_Witness ==
    /\ pc = "done"
    /\ N >= 2
    /\ M = N + 1
    /\ calldraws >= 2
    /\ xs = <<N - 1>>

(* The draw values that get_one_index turns into the index x. *)
Preimages(x) == {rv \in 0..(M - 1) : ~Rejects(rv, aN) /\ Index(rv, N) = x}

(* C2: among the M draw values, every index of [0, N-1] is the result of   *)
(* exactly M div N of them, and a returned index is the result of the draw *)
(* that was accepted.                                                      *)
C2_ZeroBias ==
    Entered =>
        /\ \A x \in 0..(N - 1) : Cardinality(Preimages(x)) = M \div N
        /\ Returned => r \in Preimages(xs[Len(xs)])

(* An index returned where N does not divide M and M div N is 2 or more. *)
C2_Witness ==
    /\ pc = "done"
    /\ M % N # 0
    /\ M \div N >= 2
    /\ Len(xs) = 1

(* The failure of the range check `assert M >= N` of get_one_index. *)
InvalidRange == "AssertionError"

(* C3: with N = 0 or M < N, get_one_index ends in the one InvalidRange     *)
(* condition, before any draw and with no index returned.                  *)
C3_InvalidRangeForBadArguments ==
    (mode = "direct" /\ pc # "call" /\ (N = 0 \/ M < N)) =>
        /\ pc = "error"
        /\ err = InvalidRange
        /\ calldraws = 0
        /\ xs = <<>>

(* The draw values that get_one_index draws again. *)
RejectedDraws == {rv \in 0..(M - 1) : Rejects(rv, aN)}

(* C8: the rejected draw values are exactly [M - (M mod N), M-1], M mod N  *)
(* of them and fewer than N; the loop goes on after a draw if and only if  *)
(* the draw is one of them; with M mod N = 0 every call returns after one  *)
(* draw.                                                                   *)
C8_RejectRegion ==
    Entered =>
        /\ RejectedDraws = (M - (M % N))..(M - 1)
        /\ Cardinality(RejectedDraws) = M % N
        /\ M % N < N
        /\ (pc = "loop" /\ r # NoDraw) => r \in RejectedDraws
        /\ Returned => (r \in 0..(M - 1) /\ r \notin RejectedDraws)
        /\ (M % N = 0 /\ pc = "loop") => r = NoDraw
        /\ (M % N = 0 /\ Returned) => calldraws = 1

(* The least rejected value drawn, and the loop turning again. *)
C8_Witness ==
    /\ pc = "loop"
    /\ M % N # 0
    /\ r = M - (M % N)
    /\ calldraws >= 1

-----------------------------------------------------------------------------
(* Properties of get_random_numbers, under SpecBytes. *)

(* C4: a read that returns fewer than nbytes bytes ends the session in an  *)
(* InsufficientEntropy error; it is never converted and never yields an    *)
(* index.                                                                  *)
C4_ShortReadIsFatal ==
    \A k \in DOMAIN hist :
        hist[k].got < nbytes => (pc = "error" /\ err = "InsufficientEntropy")

AcceptedDraws == SelectSeq(hist, LAMBDA h : ~Rejects(h.r, aN))

(* C9: every draw consumes exactly nbytes fresh bytes, the position is     *)
(* nbytes times the number of draws, and the k-th index is r mod N of the  *)
(* k-th accepted draw.                                                     *)
C9_ExactlyNBytesPerDraw ==
    mode = "bytes" =>
        /\ pos = nbytes * Len(hist)
        /\ \A k \in DOMAIN hist :
              /\ hist[k].got = nbytes
              /\ hist[k].start = nbytes * (k - 1)
        /\ Entered =>
              /\ Len(AcceptedDraws) = Len(xs)
              /\ \A k \in DOMAIN xs : xs[k] = AcceptedDraws[k].r % N

-----------------------------------------------------------------------------
(* Properties of get_cast_of_dice and _get_throw, under SpecDice. *)

(* A line is well formed: exactly t integers, each a face of the die. *)
WellFormed(l, s, t) ==
    /\ Len(l) = t
    /\ \A k \in DOMAIN l : l[k].int /\ l[k].v \in 1..s

(* A line of exactly t integers of which one or more is no face. *)
HasBadFace(l, s, t) ==
    /\ Len(l) = t
    /\ \A k \in DOMAIN l : l[k].int
    /\ \E k \in DOMAIN l : l[k].v \notin 1..s

(* The position, from 1, of the first entry that is no face of the die. *)
FirstBadFace(l, s) ==
    CHOOSE k \in DOMAIN l :
        /\ l[k].v \notin 1..s
        /\ \A j \in 1..(k - 1) : l[j].v \in 1..s

(* C5: a step that reads a malformed line makes no draw of it: the word    *)
(* counter, the list, r and the count of tested draws are unchanged, the   *)
(* loop asks for the same word again, and for a line of `throws` integers  *)
(* with a face out of range the report names the first such position.      *)
C5_MalformedLineNeverDrawn ==
    [][(nlines' = nlines + 1 /\ ~WellFormed(line', sides, throws)) =>
          /\ i' = i
          /\ xs' = xs
          /\ r' = r
          /\ calldraws' = calldraws
          /\ pc' = "loop"
          /\ word' = i' + 1
          /\ HasBadFace(line', sides, throws) =>
                out' = <<Msg("Number {} out of range (1 to {})",
                             <<FirstBadFace(line', sides), sides>>)>>]_vars

(* The second of two faces is sides + 1: the report names position 2 and   *)
(* word 1 is asked for again.                                              *)
C5_Witness ==
    /\ mode = "dice"
    /\ throws = 2
    /\ Len(line) = 2
    /\ line[1] = IntToken(1)
    /\ line[2] = IntToken(sides + 1)
    /\ out = <<Msg("Number {} out of range (1 to {})", <<2, sides>>)>>
    /\ pc = "loop"
    /\ i = 0
    /\ word = 1
    /\ nlines >= 2

(* The well-formed lines of t throws of a die of s sides, as faces. *)
Rolls(s, t) == [1..t -> 1..s]

(* The conversion is a bijection from Rolls(s, t) onto [0, s^t - 1], and   *)
(* the first throw is the least significant digit.                         *)
ConversionIsBijection(s, t) ==
    /\ \A rs \in Rolls(s, t) : SumThrow(rs, s, t) \in 0..(Pow(s, t) - 1)
    /\ {SumThrow(rs, s, t) : rs \in Rolls(s, t)} = 0..(Pow(s, t) - 1)
    /\ Cardinality(Rolls(s, t)) = Pow(s, t)
    /\ \A rs \in Rolls(s, t) :
          (t >= 1 /\ rs[1] < s) =>
              SumThrow([rs EXCEPT ![1] = rs[1] + 1], s, t) = SumThrow(rs, s, t) + 1

(* C6: the value of an accepted line is sum (roll[i]-1) * sides^i, first   *)
(* throw least significant; it lies in [0, sides^throws - 1], and the      *)
(* conversion is a bijection between well-formed lines and that range;     *)
(* throws [2, 1] of a die of 6 sides give 1.                               *)
C6_ConversionBijective ==
    mode = "dice" =>
        /\ ConversionIsBijection(sides, throws)
        /\ (nlines = 0 /\ i = 0 /\ pc = "call") =>
              /\ \A s \in 2..MaxSides : \A t \in 0..MaxThrows :
                    ConversionIsBijection(s, t)
              /\ SumThrow(<<2, 1>>, DefaultSides, 2) = 1
        /\ (calldraws >= 1 /\ WellFormed(line, sides, throws)) =>
              /\ pc # "error"
              /\ r \in 0..(Pow(sides, throws) - 1)
              /\ \A k \in 1..throws :
                    (r \div Pow(sides, k - 1)) % sides = line[k].v - 1

(* Two throws, the first the greater digit read: r is the first face less  *)
(* one, the second face being 1.                                           *)
C6_Witness ==
    /\ mode = "dice"
    /\ throws = 2
    /\ nlines > 0
    /\ line = <<IntToken(2), IntToken(1)>>
    /\ r = 1

(* The last line read was well formed, get_one_index tested its value and *)
(* its loop turns again.                                                  *)
RejectedLine ==
    /\ mode = "dice"
    /\ pc = "loop"
    /\ calldraws >= 1
    /\ WellFormed(line, sides, throws)

(* C10: after a well-formed line that the sampler rejects, the same word   *)
(* is asked for again, and what was printed since the line was read is     *)
(* what no malformed line leaves printed.                                  *)
C10_RejectionDistinguished ==
    RejectedLine =>
        /\ Rejects(r, aN)
        /\ word = i + 1
        /\ \A l \in Lines(sides, throws) :
              ~WellFormed(l, sides, throws) => Report(l, sides, throws) # out

(* A rejected line, nothing printed after it, word 1 to be asked again. *)
C10_Witness ==
    /\ RejectedLine
    /\ r >= aN
    /\ out = <<>>
    /\ i = 0
    /\ word = 1

=============================================================================
